---- MODULE Spec2Model ----
(***************************************************************************)
(* Model of minify_and_split.py: the line filter minify_content, the       *)
(* marker splitter split_svg and the orchestrator main.                    *)
(*                                                                         *)
(* Text is a sequence of one-character strings, so that every string       *)
(* operation of the script (strip, startswith, find, slicing, split, join) *)
(* is computed character by character as Python computes it.               *)
(***************************************************************************)
EXTENDS Integers, Sequences, FiniteSets

\* ------------------------------------------------------------------------
\* Bounds of the model
\* ------------------------------------------------------------------------

\* number of pieces a text handed to minify_content is assembled from
MaxPieces == 4

\* number of parts an input document of a run is assembled from
MaxParts == 3

\* number of times the tool is run on the same directory
MaxRuns == 2

\* number of characters a failing write can leave in the file it opened
MaxPartial == 1

\* ------------------------------------------------------------------------
\* Python string primitives
\* ------------------------------------------------------------------------

\* the characters str.strip() / str.rstrip() remove (those of the alphabet)
Whitespace == {" ", "\t", "\n", "\r", "\f"}

Min(S) == CHOOSE x \in S : \A y \in S : x <= y

\* s[lo:hi] with Python's treatment of negative and out-of-range indices
PySlice(s, lo, hi) ==
  LET n  == Len(s)
      l0 == IF lo < 0 THEN lo + n ELSE lo
      h0 == IF hi < 0 THEN hi + n ELSE hi
      l  == IF l0 < 0 THEN 0 ELSE IF l0 > n THEN n ELSE l0
      h  == IF h0 < 0 THEN 0 ELSE IF h0 > n THEN n ELSE h0
  IN  SubSeq(s, l + 1, h)

\* s.startswith(p)
StartsWith(s, p) == Len(s) >= Len(p) /\ SubSeq(s, 1, Len(p)) = p

\* s.endswith(p)
EndsWith(s, p) == Len(s) >= Len(p) /\ SubSeq(s, Len(s) - Len(p) + 1, Len(s)) = p

Max(S) == CHOOSE x \in S : \A y \in S : x >= y

\* s.lstrip(): s from its first character that is not whitespace
LStrip(s) ==
  LET I == {i \in 1..Len(s) : s[i] \notin Whitespace}
  IN  IF I = {} THEN <<>> ELSE SubSeq(s, Min(I), Len(s))

\* s.rstrip(): s up to its last character that is not whitespace
RStrip(s) ==
  LET I == {i \in 1..Len(s) : s[i] \notin Whitespace}
  IN  IF I = {} THEN <<>> ELSE SubSeq(s, 1, Max(I))

\* s.strip()
Strip(s) == RStrip(LStrip(s))

\* s.find(sub): the 0-based index of the first occurrence, or -1
Find(s, sub) ==
  LET I == {i \in 0..(Len(s) - Len(sub)) : SubSeq(s, i + 1, i + Len(sub)) = sub}
  IN  IF I = {} THEN -1 ELSE Min(I)

\* content.split('\n')
RECURSIVE Split(_)
Split(s) ==
  LET I == {i \in 1..Len(s) : s[i] = "\n"}
  IN  IF I = {} THEN <<s>>
      ELSE <<SubSeq(s, 1, Min(I) - 1)>> \o Split(SubSeq(s, Min(I) + 1, Len(s)))

JoinWithNewline(ls) ==
  LET RECURSIVE J(_)
      J(k) == IF k > Len(ls) THEN <<>>
              ELSE IF k = Len(ls) THEN ls[k]
              ELSE ls[k] \o <<"\n">> \o J(k + 1)
  IN  J(1)

\* ''.join(minified_lines)
RECURSIVE Join(_)
Join(ls) == IF ls = <<>> THEN <<>> ELSE Head(ls) \o Join(Tail(ls))

\* ------------------------------------------------------------------------
\* minify_content
\* ------------------------------------------------------------------------

HtmlOpen == <<"<", "!", "-", "-">>
HtmlClose == <<"-", "-", ">">>
Slashes == <<"/", "/">>

IsHtmlCommentNever(stripped) == FALSE

\* line.strip().startswith('<!--') and line.strip().endswith('-->')
IsHtmlComment(stripped) ==
  StartsWith(stripped, HtmlOpen) /\ EndsWith(stripped, HtmlClose)

QualifiesNoGuard(stripped, i) ==
  PySlice(stripped, i, i + 2) = Slashes /\ i > 0

\* stripped[i:i+2] == '//' and i > 0 and stripped[i-1] != ':'
Qualifies(stripped, i) ==
  /\ PySlice(stripped, i, i + 2) = Slashes
  /\ i > 0
  /\ stripped[i] # ":"

\* the scan "for i in range(len(stripped) - 1)" with its break: the first
\* index of the range that qualifies, or -1 when the loop runs to its end
comment_pos(stripped) ==
  LET I == {i \in 0..(Len(stripped) - 2) : Qualifies(stripped, i)}
  IN  IF I = {} THEN -1 ELSE Min(I)

TruncateNoRStrip(stripped, pos) == PySlice(stripped, 0, pos)

\* stripped[:comment_pos].rstrip()
Truncate(stripped, pos) == RStrip(PySlice(stripped, 0, pos))

\* one iteration of the loop over the lines: the sequence of lines the
\* iteration appends to minified_lines (none or one)
MinifyLine(line) ==
  LET stripped == Strip(line)
  IN  IF stripped = <<>> THEN <<>>
      ELSE IF IsHtmlComment(stripped) THEN <<>>
      ELSE IF StartsWith(stripped, Slashes) THEN <<>>
      ELSE LET pos == comment_pos(stripped)
               cut == IF pos # -1 THEN Truncate(stripped, pos) ELSE stripped
           IN  IF cut = <<>> THEN <<>> ELSE <<cut>>

RECURSIVE minified_lines(_)
minified_lines(lines) ==
  IF lines = <<>> THEN <<>>
  ELSE MinifyLine(Head(lines)) \o minified_lines(Tail(lines))

JoinNewline(ls) == JoinWithNewline(ls)

\* the return value: the kept lines joined without a separator
JoinLines(ls) == Join(ls)

minify_content(content) == JoinLines(minified_lines(Split(content)))

\* ------------------------------------------------------------------------
\* State
\* ------------------------------------------------------------------------

VARIABLES
  fs,              \* the files of the directory: path -> file
  fs0,             \* the files as they were when the current run began
  run,             \* number of the current run
  pc,              \* position of the run inside main / split_svg
  content,         \* split_svg: the text read from the input file
  original_size,   \* split_svg: len(content)
  start_pos,       \* split_svg: content.find(start_marker)
  end_pos,         \* split_svg: content.find(end_marker)
  start_part,      \* split_svg: content[:start_pos]
  end_part,        \* split_svg: content[end_pos + len(end_marker):]
  minified_start,  \* split_svg: minify_content(start_part)
  minified_end,    \* split_svg: minify_content(end_part)
  minified_full,   \* split_svg: minify_content(content)
  minified_size,   \* split_svg: len(minified_full)
  out,             \* the diagnostics printed by the current run
  exc,             \* the exception raised in the current run, or "none"
  prev,            \* the three outputs left by the last run that completed
  text,            \* minify_content called on its own: the argument
  m1,              \* minify_content(text)
  m2,              \* minify_content(m1)
  hpc              \* position of the stand-alone minify_content calls

runVars == <<fs, fs0, run, pc, content, original_size, start_pos, end_pos,
             start_part, end_part, minified_start, minified_end,
             minified_full, minified_size, out, exc, prev>>
minVars == <<text, m1, m2, hpc>>
vars == <<fs, fs0, run, pc, content, original_size, start_pos, end_pos,
          start_part, end_part, minified_start, minified_end,
          minified_full, minified_size, out, exc, prev, text, m1, m2, hpc>>

\* ------------------------------------------------------------------------
\* Constants of the script
\* ------------------------------------------------------------------------

start_marker == <<"<", "!", "-", "-", " ", "D", "y", "n", "a", "m", "i", "c", " ", "C", "o", "n", "t", "e", "n", "t", " ", "S", "t", "a", "r", "t", " ", "-", "-", ">">>
end_marker == <<"<", "!", "-", "-", " ", "D", "y", "n", "a", "m", "i", "c", " ", "C", "o", "n", "t", "e", "n", "t", " ", "E", "n", "d", " ", "-", "-", ">">>

file_path == "assets/paint.full.svg"
start_file == "assets/paint.min.start.svg"
end_file_same_as_start == "assets/paint.min.start.svg"
end_file == "assets/paint.min.end.svg"
minified_file == "assets/paint.min.svg"

Paths == {file_path, start_file, end_file, minified_file}

\* ------------------------------------------------------------------------
\* Files
\* ------------------------------------------------------------------------

NoFile == [exists |-> FALSE, data |-> <<>>]
File(d) == [exists |-> TRUE, data |-> d]

\* f.read() of a file opened in text mode: universal newlines turn
\* "\r\n" and a lone "\r" into "\n"
ReadText(d) ==
  LET Dropped == "dropped"
      t == [i \in 1..Len(d) |->
              IF d[i] = "\n" /\ i > 1 /\ d[i - 1] = "\r" THEN Dropped
              ELSE IF d[i] = "\r" THEN "\n"
              ELSE d[i]]
      Kept(c) == c # Dropped
  IN  SelectSeq(t, Kept)

WriteAppend(old, data) == File(old.data \o data)

\* open(path, 'w') followed by f.write(data), both succeeding
WriteResult(old, data) == File(data)

\* the file left behind when open(path, 'w') or f.write(data) raises:
\* untouched (open failed) or truncated and holding a prefix of data
FailedWrite(old, data) ==
  {old} \cup {File(PySlice(data, 0, k)) : k \in 0..MaxPartial}

\* ------------------------------------------------------------------------
\* Inputs
\* ------------------------------------------------------------------------

\* every concatenation of at most n members of P
RECURSIVE Concats(_, _)
Concats(P, n) ==
  IF n = 0 THEN {<<>>}
  ELSE LET S == Concats(P, n - 1) IN S \cup {s \o p : s \in S, p \in P}

Parts == {start_marker, end_marker, <<"\n">>, <<"a">>, <<"/", "/">>}

ExampleDoc == <<"<", "!", "-", "-", "c", "-", "-", ">", "\n", "A", "\n", "<", "!", "-", "-", " ", "D", "y", "n", "a", "m", "i", "c", " ", "C", "o", "n", "t", "e", "n", "t", " ", "S", "t", "a", "r", "t", " ", "-", "-", ">", "\n", "M", "I", "D", "\n", "<", "!", "-", "-", " ", "D", "y", "n", "a", "m", "i", "c", " ", "C", "o", "n", "t", "e", "n", "t", " ", "E", "n", "d", " ", "-", "-", ">", "\n", "B", " ", "/", "/", " ", "x", "\n">>

\* a document with carriage-return line ends and indented marker lines
CrLfDoc == <<"a", "\r", "\n", " ">> \o start_marker \o <<" ", "\r", "\n", "b", "\r", "\n">> \o end_marker \o <<"\r", "c">>

Documents == Concats(Parts, MaxParts) \cup {ExampleDoc, CrLfDoc}

Stale == File(<<"o", "l", "d">>)

Pieces == {<<"a">>, <<" ">>, <<":">>, <<"/">>, <<"/", "/">>, <<"\n">>, HtmlOpen, HtmlClose}

LineFooBar == <<"f", "o", "o", " ", "/", "/", " ", "b", "a", "r">>
LineFoo == <<"f", "o", "o">>
LineUrl == <<"h", "t", "t", "p", ":", "/", "/", "e", "x", "a", "m", "p", "l", "e", ".", "c", "o", "m">>
LineComment == <<"/", "/", " ", "c", "o", "m", "m", "e", "n", "t">>
LineNote == <<"<", "!", "-", "-", " ", "n", "o", "t", "e", " ", "-", "-", ">">>

Texts == Concats(Pieces, MaxPieces) \cup {LineFooBar, LineUrl, LineComment, LineNote}

\* ------------------------------------------------------------------------
\* A run of the tool
\* ------------------------------------------------------------------------

Locals0 ==
  /\ content = <<>>
  /\ original_size = 0
  /\ start_pos = -1
  /\ end_pos = -1
  /\ start_part = <<>>
  /\ end_part = <<>>
  /\ minified_start = <<>>
  /\ minified_end = <<>>
  /\ minified_full = <<>>
  /\ minified_size = 0
  /\ out = <<>>
  /\ exc = "none"

HarnessOff == text = <<>> /\ m1 = <<>> /\ m2 = <<>> /\ hpc = "off"

Init ==
  /\ \E inp \in {NoFile} \cup {File(d) : d \in Documents} :
       \E old \in {NoFile, Stale} :
         fs = [p \in Paths |-> IF p = file_path THEN inp ELSE old]
  /\ fs0 = fs
  /\ run = 1
  /\ pc = "main"
  /\ prev = <<>>
  /\ Locals0
  /\ HarnessOff

\* the lines of main enclosed by "try:"
InTry(at) == at \in {"read", "find", "split", "reduction",
                     "write_start", "write_end", "write_full"}

\* where control goes when an exception is raised at position at
Raised(at) == IF InTry(at) THEN "except" ELSE "crashed"

\* if not file_path.exists(): print(...); return
CheckExists ==
  /\ pc = "main"
  /\ IF ~fs[file_path].exists
       THEN /\ out' = Append(out, "Error: File not found!")
            /\ pc' = "done"
       ELSE /\ out' = out
            /\ pc' = "read"
  /\ UNCHANGED <<fs, fs0, run, content, original_size, start_pos, end_pos,
                 start_part, end_part, minified_start, minified_end,
                 minified_full, minified_size, exc, prev>>
  /\ UNCHANGED minVars

\* split_svg: open, read, len(content); open or read may raise
ReadFile ==
  /\ pc = "read"
  /\ \/ /\ content' = ReadText(fs[file_path].data)
        /\ original_size' = Len(content')
        /\ out' = out \o <<"Processing file", "Original file size">>
        /\ pc' = "find"
        /\ exc' = exc
     \/ /\ exc' = "read"
        /\ out' = Append(out, "Processing file")
        /\ pc' = Raised("read")
        /\ UNCHANGED <<content, original_size>>
  /\ UNCHANGED <<fs, fs0, run, start_pos, end_pos, start_part, end_part,
                 minified_start, minified_end, minified_full, minified_size,
                 prev>>
  /\ UNCHANGED minVars

MarkersMissingFalsy(sp, ep) == sp = 0 \/ ep = 0

MarkersMissingBoth(sp, ep) == sp = -1 /\ ep = -1

\* start_pos == -1 or end_pos == -1
MarkersMissing(sp, ep) == sp = -1 \/ ep = -1

\* split_svg: find both markers; without them print the error and return
\* (None, None, None), on which main returns
FindMarkers ==
  /\ pc = "find"
  /\ start_pos' = Find(content, start_marker)
  /\ end_pos' = Find(content, end_marker)
  /\ IF MarkersMissing(start_pos', end_pos')
       THEN /\ out' = Append(out, "ERROR: Could not find dynamic content markers!")
            /\ pc' = "done"
       ELSE /\ out' = out
            /\ pc' = "split"
  /\ UNCHANGED <<fs, fs0, run, content, original_size, start_part, end_part,
                 minified_start, minified_end, minified_full, minified_size,
                 exc, prev>>
  /\ UNCHANGED minVars

\* content[:start_pos]
StartPart(c, sp) == PySlice(c, 0, sp)

EndPartFromMarker(c, ep) == PySlice(c, ep, Len(c))

\* content[end_pos + len(end_marker):]
EndPart(c, ep) == PySlice(c, ep + Len(end_marker), Len(c))

\* split_svg: extract the two parts and minify them and the full content
SplitAndMinify ==
  /\ pc = "split"
  /\ start_part' = StartPart(content, start_pos)
  /\ end_part' = EndPart(content, end_pos)
  /\ minified_start' = minify_content(start_part')
  /\ minified_end' = minify_content(end_part')
  /\ minified_full' = minify_content(content)
  /\ out' = out \o <<"Split parts", "Minifying parts">>
  /\ pc' = "reduction"
  /\ UNCHANGED <<fs, fs0, run, content, original_size, start_pos, end_pos,
                 minified_size, exc, prev>>
  /\ UNCHANGED minVars

\* split_svg: minified_size and the reduction (minified_size / original_size),
\* which raises ZeroDivisionError when original_size is 0
ComputeReduction ==
  /\ pc = "reduction"
  /\ minified_size' = Len(minified_full)
  /\ IF original_size = 0
       THEN /\ exc' = "ZeroDivisionError"
            /\ pc' = Raised("reduction")
            /\ out' = out
       ELSE /\ exc' = exc
            /\ pc' = "write_start"
            /\ out' = out \o <<"Minified full size", "Reduction">>
  /\ UNCHANGED <<fs, fs0, run, content, original_size, start_pos, end_pos,
                 start_part, end_part, minified_start, minified_end,
                 minified_full, prev>>
  /\ UNCHANGED minVars

\* with open(path, 'w', encoding='utf-8') as f: f.write(data)
\* at position at; on success the run prints msgs and goes on to next
WriteFile(at, path, data, msgs, next) ==
  /\ pc = at
  /\ \/ /\ fs' = [fs EXCEPT ![path] = WriteResult(fs[path], data)]
        /\ out' = out \o msgs
        /\ pc' = next
        /\ exc' = exc
     \/ /\ \E f \in FailedWrite(fs[path], data) : fs' = [fs EXCEPT ![path] = f]
        /\ out' = out
        /\ exc' = at
        /\ pc' = Raised(at)
  /\ UNCHANGED <<fs0, run, content, original_size, start_pos, end_pos,
                 start_part, end_part, minified_start, minified_end,
                 minified_full, minified_size, prev>>
  /\ UNCHANGED minVars

WriteStart == WriteFile("write_start", start_file, minified_start, <<>>, "write_end")

WriteEnd ==
  WriteFile("write_end", end_file, minified_end,
            <<"Files created", "Start", "End">>, "write_full")

WriteFull ==
  WriteFile("write_full", minified_file, minified_full, <<"Minified">>, "done")

\* except Exception as e: print(f"Error processing file: {e}")
Except ==
  /\ pc = "except"
  /\ out' = Append(out, "Error processing file")
  /\ pc' = "done"
  /\ UNCHANGED <<fs, fs0, run, content, original_size, start_pos, end_pos,
                 start_part, end_part, minified_start, minified_end,
                 minified_full, minified_size, exc, prev>>
  /\ UNCHANGED minVars

\* the run wrote its three files and printed its last line
Completed ==
  pc = "done" /\ exc = "none" /\ out # <<>> /\ out[Len(out)] = "Minified"

Outputs == <<fs[start_file], fs[end_file], fs[minified_file]>>

\* the tool is started again on the same directory: a new call of main
Rerun ==
  /\ pc = "done"
  /\ run < MaxRuns
  /\ run' = run + 1
  /\ fs0' = fs
  /\ prev' = IF Completed THEN Outputs ELSE prev
  /\ pc' = "main"
  /\ content' = <<>>
  /\ original_size' = 0
  /\ start_pos' = -1
  /\ end_pos' = -1
  /\ start_part' = <<>>
  /\ end_part' = <<>>
  /\ minified_start' = <<>>
  /\ minified_end' = <<>>
  /\ minified_full' = <<>>
  /\ minified_size' = 0
  /\ out' = <<>>
  /\ exc' = "none"
  /\ UNCHANGED fs
  /\ UNCHANGED minVars

Next ==
  \/ CheckExists
  \/ ReadFile
  \/ FindMarkers
  \/ SplitAndMinify
  \/ ComputeReduction
  \/ WriteStart
  \/ WriteEnd
  \/ WriteFull
  \/ Except
  \/ Rerun

Spec == Init /\ [][Next]_vars

\* ------------------------------------------------------------------------
\* minify_content called on its own
\* ------------------------------------------------------------------------

RunOff ==
  /\ fs = [p \in Paths |-> NoFile]
  /\ fs0 = fs
  /\ run = 1
  /\ pc = "off"
  /\ prev = <<>>
  /\ Locals0

InitMinify ==
  /\ text \in Texts
  /\ m1 = <<>>
  /\ m2 = <<>>
  /\ hpc = "input"
  /\ RunOff

\* m1 = minify_content(text)
Minify ==
  /\ hpc = "input"
  /\ m1' = minify_content(text)
  /\ hpc' = "minified"
  /\ UNCHANGED <<text, m2>>
  /\ UNCHANGED runVars

\* m2 = minify_content(m1): the filter applied to its own output
MinifyAgain ==
  /\ hpc = "minified"
  /\ m2' = minify_content(m1)
  /\ hpc' = "reminified"
  /\ UNCHANGED <<text, m1>>
  /\ UNCHANGED runVars

NextMinify ==
  \/ Minify
  \/ MinifyAgain

SpecMinify == InitMinify /\ [][NextMinify]_vars

\* ------------------------------------------------------------------------
\* Properties of minify_content (checked under SpecMinify)
\* ------------------------------------------------------------------------

SingleLine(t) == \A i \in 1..Len(t) : t[i] # "\n"

\* the 1-based positions of t at which a "//" starts whose preceding
\* character exists and is not ":"
CutPoints(t) ==
  {p \in 2..(Len(t) - 1) : t[p] = "/" /\ t[p + 1] = "/" /\ t[p - 1] # ":"}

\* the per-line rules of the line filter, in their order
PerLineRule(line) ==
  LET t == Strip(line)
  IN  IF t = <<>> THEN <<>>
      ELSE IF StartsWith(t, HtmlOpen) /\ EndsWith(t, HtmlClose) THEN <<>>
      ELSE IF StartsWith(t, Slashes) THEN <<>>
      ELSE IF CutPoints(t) = {} THEN t
      ELSE RStrip(SubSeq(t, 1, Min(CutPoints(t)) - 1))

\* C3: on a single line minify_content returns what the per-line rules give:
\* nothing for a blank line, a '<!-- ... -->' line or a '//' line, otherwise
\* the trimmed line cut at the first '//' not preceded by ':' and
\* right-trimmed; 'foo // bar' gives 'foo', 'http://example.com' is
\* unchanged, '// comment' and '<!-- note -->' give the empty string.
C3_PerLineRules ==
  (hpc # "input" /\ SingleLine(text)) =>
     /\ m1 = PerLineRule(text)
     /\ text = LineFooBar => m1 = LineFoo
     /\ text = LineUrl => m1 = LineUrl
     /\ text = LineComment => m1 = <<>>
     /\ text = LineNote => m1 = <<>>

C3_Witness ==
  /\ hpc = "minified"
  /\ SingleLine(text)
  /\ CutPoints(Strip(text)) # {}
  /\ Find(text, <<":", "/", "/">>) # -1
  /\ m1 # <<>>
  /\ m1 # Strip(text)

NoBlankLines(t) ==
  \A i \in 1..Len(Split(t)) : Strip(Split(t)[i]) # <<>>

NoCommentSyntax(t) ==
  /\ Find(t, Slashes) = -1
  /\ \A i \in 1..Len(Split(t)) :
       ~(StartsWith(Strip(Split(t)[i]), HtmlOpen)
           /\ EndsWith(Strip(Split(t)[i]), HtmlClose))

\* the trimmed lines of t, concatenated in their order
ConcatTrimmed(t) ==
  LET ls == Split(t)
      RECURSIVE Cat(_)
      Cat(k) == IF k > Len(ls) THEN <<>> ELSE Strip(ls[k]) \o Cat(k + 1)
  IN  Cat(1)

\* C4: for a text without blank lines and without comment syntax,
\* minify_content returns the concatenation of the trimmed lines in order.
C4_ConcatOfTrimmedLines ==
  (hpc # "input" /\ NoBlankLines(text) /\ NoCommentSyntax(text)) =>
     m1 = ConcatTrimmed(text)

C4_Witness ==
  /\ hpc = "minified"
  /\ NoBlankLines(text)
  /\ NoCommentSyntax(text)
  /\ Len(Split(text)) >= 2
  /\ \E i \in 1..Len(Split(text)) : Strip(Split(text)[i]) # Split(text)[i]
  /\ m1 = ConcatTrimmed(text)

\* C7: when the minified form m1 of a text contains no '//' and is not a
\* '<!-- ... -->' line, minifying m1 again returns m1.
C7_Idempotent ==
  (hpc = "reminified"
     /\ Find(m1, Slashes) = -1
     /\ ~(StartsWith(m1, HtmlOpen) /\ EndsWith(m1, HtmlClose))) =>
     m2 = m1

C7_Witness ==
  /\ hpc = "reminified"
  /\ Find(m1, Slashes) = -1
  /\ ~(StartsWith(m1, HtmlOpen) /\ EndsWith(m1, HtmlClose))
  /\ m1 # <<>>
  /\ m1 # text
  /\ Len(Split(text)) >= 2
  /\ m2 = m1

\* ------------------------------------------------------------------------
\* Properties of a run (checked under Spec)
\* ------------------------------------------------------------------------

Printed(msg) == \E i \in 1..Len(out) : out[i] = msg

LastPrinted == IF out = <<>> THEN "" ELSE out[Len(out)]

\* split_svg got past the marker check and computed the three results
SplitDone == Printed("Minifying parts")

OutputPaths == {start_file, end_file, minified_file}

\* the marker is the whole of some line of doc, surrounding blanks aside
OwnLine(doc, marker) ==
  \E i \in 1..Len(Split(doc)) : Strip(Split(doc)[i]) = marker

NotMarkerLine(l) == Strip(l) # start_marker /\ Strip(l) # end_marker

WithoutMarkerLines(doc) == JoinWithNewline(SelectSeq(Split(doc), NotMarkerLine))

ExampleFullWithMarkers == <<"A">> \o start_marker \o <<"M", "I", "D">> \o end_marker \o <<"B">>

\* C1 as stated: for a Document with both markers each on a line of its own
\* the full minified output still contains both markers; the example
\* document gives start 'A', end 'B' and full 'A<start marker>MID<end
\* marker>B'.
C1_FullKeepsMarkers ==
  (SplitDone /\ OwnLine(content, start_marker) /\ OwnLine(content, end_marker)) =>
     /\ Find(minified_full, start_marker) # -1
     /\ Find(minified_full, end_marker) # -1
     /\ content = ExampleDoc =>
          /\ minified_start = <<"A">>
          /\ minified_end = <<"B">>
          /\ minified_full = ExampleFullWithMarkers

\* C1 amended: for a Document with both markers each on a line of its own
\* the marker lines are dropped from the full minified output like any other
\* '<!-- ... -->' line, so the output is the minified form of the Document
\* without its marker lines; the example document gives start 'A', end 'B'
\* and full 'AMIDB'.
C1_FullDropsMarkerLines ==
  (SplitDone /\ OwnLine(content, start_marker) /\ OwnLine(content, end_marker)) =>
     /\ minified_full = minify_content(WithoutMarkerLines(content))
     /\ content = ExampleDoc =>
          /\ minified_start = <<"A">>
          /\ minified_end = <<"B">>
          /\ minified_full = <<"A", "M", "I", "D", "B">>

C1_Witness ==
  /\ SplitDone
  /\ content = ExampleDoc
  /\ OwnLine(content, start_marker)
  /\ OwnLine(content, end_marker)
  /\ minified_full = <<"A", "M", "I", "D", "B">>

InputMissing == ~fs[file_path].exists

InputLacksMarker ==
  /\ fs[file_path].exists
  /\ \/ Find(ReadText(fs[file_path].data), start_marker) = -1
     \/ Find(ReadText(fs[file_path].data), end_marker) = -1

\* C2: when the input file does not exist or the Document lacks a marker,
\* the run leaves the three output files as they were, ends with a
\* diagnostic as its last output, and no exception leaves main.
C2_NoOutputsOnFailure ==
  (InputMissing \/ InputLacksMarker) =>
     /\ \A p \in OutputPaths : fs[p] = fs0[p]
     /\ pc \in {"main", "read", "find", "except", "done"}
     /\ (pc = "done" /\ InputMissing) => out = <<"Error: File not found!">>
     /\ (pc = "done" /\ InputLacksMarker) =>
          LastPrinted \in {"ERROR: Could not find dynamic content markers!",
                           "Error processing file"}

C2_Witness ==
  /\ pc = "done"
  /\ InputLacksMarker
  /\ Find(content, start_marker) # -1
  /\ LastPrinted = "ERROR: Could not find dynamic content markers!"
  /\ fs[start_file] = Stale

\* C5: when the first start marker comes before the first end marker, the
\* Document is the start part, the start marker, the text between the
\* markers, the end marker and the end part, in this order, the start part
\* ending where the first start marker begins and the end part beginning
\* where the first end marker ends.
C5_RoundTrip ==
  (SplitDone /\ start_pos < end_pos) =>
     LET inner == SubSeq(content, Len(start_part) + Len(start_marker) + 1,
                         Len(content) - Len(end_part) - Len(end_marker))
     IN  /\ content = start_part \o start_marker \o inner \o end_marker \o end_part
         /\ Len(start_part) = Find(content, start_marker)
         /\ Len(content) - Len(end_part) = Find(content, end_marker) + Len(end_marker)

C5_Witness ==
  /\ SplitDone
  /\ start_pos < end_pos
  /\ start_part # <<>>
  /\ end_part # <<>>
  /\ start_pos + Len(start_marker) < end_pos

\* C6: whenever the split succeeds the start part and the end part do not
\* overlap: len(start_part) + len(end_part) <= len(content).
C6_NoOverlap ==
  SplitDone => Len(start_part) + Len(end_part) <= Len(content)

\* C8: the outputs are written in the order start, end, full; when a write
\* fails the files written before it hold their complete new content, no
\* later file is written, the error is reported and no exception leaves main.
C8_WriteOrder ==
  /\ pc = "write_start" => \A p \in OutputPaths : fs[p] = fs0[p]
  /\ pc = "write_end" =>
       /\ fs[start_file] = File(minified_start)
       /\ fs[end_file] = fs0[end_file]
       /\ fs[minified_file] = fs0[minified_file]
  /\ pc = "write_full" =>
       /\ fs[start_file] = File(minified_start)
       /\ fs[end_file] = File(minified_end)
       /\ fs[minified_file] = fs0[minified_file]
  /\ Printed("Minified") =>
       /\ fs[start_file] = File(minified_start)
       /\ fs[end_file] = File(minified_end)
       /\ fs[minified_file] = File(minified_full)
  /\ exc = "write_start" =>
       /\ fs[end_file] = fs0[end_file]
       /\ fs[minified_file] = fs0[minified_file]
  /\ exc = "write_end" =>
       /\ fs[start_file] = File(minified_start)
       /\ fs[minified_file] = fs0[minified_file]
  /\ exc = "write_full" =>
       /\ fs[start_file] = File(minified_start)
       /\ fs[end_file] = File(minified_end)
  /\ exc \in {"write_start", "write_end", "write_full"} =>
       /\ pc \in {"except", "done"}
       /\ pc = "done" => LastPrinted = "Error processing file"
  /\ pc # "crashed"

C8_Witness ==
  /\ pc = "done"
  /\ exc = "write_end"
  /\ minified_start # <<>>
  /\ minified_start # minified_end
  /\ fs0[start_file] = Stale
  /\ fs[start_file] = File(minified_start)
  /\ fs[minified_file] = Stale
  /\ LastPrinted = "Error processing file"

\* the three outputs as computed from the bytes d of the input file alone
Expected(d) ==
  LET c == ReadText(d)
      p == SubSeq(c, 1, Find(c, start_marker))
      s == SubSeq(c, Find(c, end_marker) + Len(end_marker) + 1, Len(c))
  IN  <<File(minify_content(p)), File(minify_content(s)), File(minify_content(c))>>

\* C9: a run never changes the input file; the outputs of a run that
\* completes are determined by the input content alone, whatever the output
\* files held before; a later run that completes on the same input leaves
\* the outputs as the earlier one left them.
C9_SameInputSameOutputs ==
  /\ fs[file_path] = fs0[file_path]
  /\ Completed =>
       /\ Outputs = Expected(fs[file_path].data)
       /\ prev # <<>> => Outputs = prev

C9_Witness ==
  /\ Completed
  /\ run = 2
  /\ prev = Outputs
  /\ minified_start # <<>>
  /\ minified_end # <<>>
  /\ fs0[start_file] = File(minified_start)

\* C10: past the marker check the Document is not empty, so the reduction
\* never divides by zero; the minified full content is no longer than the
\* Document; an input without the markers (the empty one included) ends in
\* the marker-not-found path.
C10_NoDivisionByZero ==
  /\ (pc \in {"split", "reduction"} \/ SplitDone) => original_size > 0
  /\ SplitDone => Len(minified_full) <= original_size
  /\ pc \in {"write_start", "write_end", "write_full"} =>
       minified_size <= original_size
  /\ exc # "ZeroDivisionError"
  /\ (pc = "done" /\ InputLacksMarker /\ exc = "none") =>
       LastPrinted = "ERROR: Could not find dynamic content markers!"

C10_Witness ==
  /\ pc = "write_start"
  /\ Printed("Reduction")
  /\ original_size > 0
  /\ minified_size > 0
  /\ minified_size < original_size

====
